---- MODULE Spec2Model ----
(***************************************************************************)
(* Model of src/agents/tools/computer-tool.ts: executeComputerAction and   *)
(* the helpers it awaits (captureScreenshot, getCursorPosition, mouseMove, *)
(* mouseClick, leftClickDrag, mouseButton, scroll, keyPress, typeText,     *)
(* holdKey, wait), running against one shared X display and one temp       *)
(* directory.                                                              *)
(*                                                                         *)
(* A JavaScript string is a sequence of characters, an object is a record  *)
(* that has exactly the fields that are present (an absent field is        *)
(* `undefined`), a shell command is the sequence of its sub-commands.      *)
(* One action of the model is one awaited step of the code.                *)
(***************************************************************************)
EXTENDS Integers, Sequences, FiniteSets, TLC

(* ---------------------------- bounds ----------------------------------- *)
\* number of executeComputerAction calls in one behaviour
MaxCalls == 2
\* longest text typed in the typing runs
MaxTextLen == 137

\* call slots (calls that may be in flight together); Spec drives slot 1 only
NumSlots == 2

Slots == 1..NumSlots

(* ----------------------- program constants ----------------------------- *)
TYPING_GROUP_SIZE == 50
SCREENSHOT_DELAY_MS == 200
\* spawn(..., {timeout: options?.timeoutMs ?? 30000})
DEFAULT_TIMEOUT_MS == 30000
\* `duration > 100` in the hold_key and wait branches
MAX_DURATION_SEC == 100
\* `scrollAmount ?? 3`
DEFAULT_SCROLL_AMOUNT == 3
\* defaults of the destructuring in executeComputerAction
displayWidth == 1280
displayHeight == 800
screenWidth == 1920
screenHeight == 1080

COMPUTER_ACTIONS ==
    {"screenshot", "mouse_move", "left_click", "right_click", "double_click",
     "middle_click", "triple_click", "left_click_drag", "left_mouse_down",
     "left_mouse_up", "key", "type", "cursor_position", "scroll", "wait",
     "hold_key"}

\* a table with the buttons of right_click and middle_click exchanged
CLICK_BUTTONS_Exchanged ==
    [a \in {"left_click", "right_click", "middle_click", "double_click",
            "triple_click"} |->
        CASE a = "left_click"   -> <<1, 1>>
          [] a = "right_click"  -> <<1, 2>>
          [] a = "middle_click" -> <<1, 3>>
          [] a = "double_click" -> <<2, 1>>
          [] a = "triple_click" -> <<3, 1>>]

\* CLICK_BUTTONS: the arguments of `click`, as <<repeat, button>>
CLICK_BUTTONS ==
    [a \in {"left_click", "right_click", "middle_click", "double_click",
            "triple_click"} |->
        CASE a = "left_click"   -> <<1, 1>>
          [] a = "right_click"  -> <<1, 3>>
          [] a = "middle_click" -> <<1, 2>>
          [] a = "double_click" -> <<2, 1>>
          [] a = "triple_click" -> <<3, 1>>]

\* a table with the wheel directions turned around
SCROLL_BUTTONS_Reversed ==
    [d \in {"up", "down", "left", "right"} |->
        CASE d = "up" -> 5 [] d = "down" -> 4 [] d = "left" -> 7
          [] d = "right" -> 6]

SCROLL_BUTTONS ==
    [d \in {"up", "down", "left", "right"} |->
        CASE d = "up" -> 4 [] d = "down" -> 5 [] d = "left" -> 6
          [] d = "right" -> 7]

(* --------------------------- requests ---------------------------------- *)
\* ComputerActionParams: `action` plus any subset of the optional fields.
\* An optional field is given as <<>> (absent) or <<v>> (present, value v).
Opt(V) == {<<>>} \cup {<<v>> : v \in V}

OptFields ==
    {"coordinate", "text", "scrollDirection", "scrollAmount", "duration", "key"}

ComputerActionParams(a, co, te, sd, sa, du, ke) ==
    LET all == [coordinate |-> co, text |-> te, scrollDirection |-> sd,
                scrollAmount |-> sa, duration |-> du, key |-> ke]
        present == {f \in OptFields : all[f] # <<>>}
    IN  [f \in present \cup {"action"} |->
            IF f = "action" THEN a ELSE all[f][1]]

CTRL == <<"c", "t", "r", "l">>

\* an action string outside ComputerAction (the `default:` branch)
UnknownAction == "zoom"
Actions == COMPUTER_ACTIONS \cup {UnknownAction}

Coordinates == {<<640, 400>>}
Keys == {CTRL}
\* the empty string matters where text is tested (`!text`, `if (modifierKey)`)
Texts(a) ==
    IF a \in {"key", "type", "hold_key", "scroll"} THEN {<<>>, <<"a">>}
    ELSE {<<"a">>}
\* scrollDirection, scrollAmount and duration, which only the scroll, wait and
\* hold_key branches read: every combination for those actions, and for
\* every action the request without them and the request with all of them
Extras(a) ==
    {<<<<>>, <<>>, <<>>>>, <<<<"down">>, <<5>>, <<1>>>>}
    \cup (IF a = "scroll"
          THEN Opt({"up", "down", "left", "right"}) \X Opt({5}) \X {<<>>}
          ELSE {})
    \cup (IF a \in {"wait", "hold_key"}
          THEN {<<>>} \X {<<>>} \X Opt({-1, 0, 1, 31, 100, 101}) ELSE {})

Requests ==
    UNION {
        {ComputerActionParams(a, co, te, x[1], x[2], x[3], ke) :
            co \in Opt(Coordinates), te \in Opt(Texts(a)),
            ke \in Opt(Keys), x \in Extras(a)}
        : a \in Actions}

\* the texts of the typing runs: every length up to MaxTextLen, the
\* characters going round an alphabet with the quote and the backslash
Alphabet == <<"a", "b", "'", "c", "\\", "d", " ">>
Text(n) == [i \in 1..n |-> Alphabet[(i % Len(Alphabet)) + 1]]
TypeRequests == {[action |-> "type", text |-> Text(n)] : n \in 1..MaxTextLen}

Has(r, f) == f \in DOMAIN r
\* the destructuring defaults of the four dimensions
Dim(r, f) ==
    IF Has(r, f) THEN r[f]
    ELSE CASE f = "displayWidth" -> displayWidth
           [] f = "displayHeight" -> displayHeight
           [] f = "screenWidth" -> screenWidth
           [] f = "screenHeight" -> screenHeight
\* JavaScript truthiness of an optional string field: present and non-empty
Truthy(r, f) == Has(r, f) /\ r[f] # <<>>

\* the dimensions of the coordinate runs: the defaults (no field given), and
\* the default API space on a screen of half and of a quarter of its size
DimConfigs ==
    {<<>>,
     [displayWidth |-> 1280, displayHeight |-> 800,
      screenWidth |-> 640, screenHeight |-> 400],
     [displayWidth |-> 1280, displayHeight |-> 800,
      screenWidth |-> 320, screenHeight |-> 200]}
\* API points of a configuration: every x of 0..width and every y of
\* 0..height occurs
ApiPoints(D) ==
    {<<x, x % (Dim(D, "displayHeight") + 1)>> : x \in 0..Dim(D, "displayWidth")}
MoveRequests ==
    UNION {{[action |-> "mouse_move", coordinate |-> p] @@ D : p \in ApiPoints(D)}
           : D \in DimConfigs}
PosRequests == {[action |-> "cursor_position"] @@ D : D \in DimConfigs}
\* the dimension fields of request r, which a tool gives to all its calls
DimFields == {"displayWidth", "displayHeight", "screenWidth", "screenHeight"}
DimsOf(r) == [f \in DOMAIN r \cap DimFields |-> r[f]]
\* where the pointer can be when a query comes: every x and every y of the
\* default screen occurs
RawPoints ==
    {<<x, x % (screenHeight + 1)>> : x \in 0..screenWidth} \cup {<<960, 540>>}

(* ------------------------- pure helpers -------------------------------- *)
\* n / d rounded to the nearest integer, halves up (n >= 0, d > 0)
Round(n, d) == (2 * n + d) \div (2 * d)

\* Math.round((a / b) * s) with n = a * s and d = b, computed in doubles: the
\* double differs from n / d by far less than 1 / (2 * d), so the result is
\* Round(n, d) unless n / d is exactly a half; there the double may fall just
\* below the half (1920 * (41 / 1280) is 61.49999999999999) and round down
MathRound(n, d) ==
    IF (2 * n) % d = 0 /\ n % d # 0
    THEN {n \div d, n \div d + 1}
    ELSE {Round(n, d)}

\* a mapping that scales x by the height ratio and y by the width ratio
scaleCoordinatesCrossed(apiX, apiY, apiWidth, apiHeight, scrW, scrH) ==
    MathRound(apiX * scrH, apiHeight) \X MathRound(apiY * scrW, apiWidth)

\* the results scaleCoordinates can return
scaleCoordinates(apiX, apiY, apiWidth, apiHeight, scrW, scrH) ==
    MathRound(apiX * scrW, apiWidth) \X MathRound(apiY * scrH, apiHeight)

\* a cursor_position branch that hands the screen position through
toApiRaw(x, y, apiWidth, apiHeight, scrW, scrH) == {<<x, y>>}

\* the inverse mapping written out in the cursor_position branch
toApi(x, y, apiWidth, apiHeight, scrW, scrH) ==
    MathRound(x * apiWidth, scrW) \X MathRound(y * apiHeight, scrH)

\* a chunk loop whose slices start one character early from the second on
ChunksOverlap(text) ==
    [i \in 1..((Len(text) + TYPING_GROUP_SIZE - 1) \div TYPING_GROUP_SIZE) |->
        SubSeq(text, (TYPING_GROUP_SIZE - 1) * (i - 1) + 1,
               IF (TYPING_GROUP_SIZE - 1) * (i - 1) + TYPING_GROUP_SIZE < Len(text)
               THEN (TYPING_GROUP_SIZE - 1) * (i - 1) + TYPING_GROUP_SIZE
               ELSE Len(text))]

\* the chunk loop of typeText: text.slice(i, i + TYPING_GROUP_SIZE)
RECURSIVE Chunks(_)
Chunks(text) ==
    IF Len(text) = 0 THEN <<>>
    ELSE IF Len(text) <= TYPING_GROUP_SIZE THEN <<text>>
    ELSE <<SubSeq(text, 1, TYPING_GROUP_SIZE)>>
         \o Chunks(SubSeq(text, TYPING_GROUP_SIZE + 1, Len(text)))

(* ----------------------------- state ------------------------------------ *)
VARIABLES
    call,      \* per slot: the executeComputerAction call in flight
    display,   \* the X display: cursor, left button, keys held down
    files,     \* the temp directory: path -> content of the file
    nextId,    \* randomUUID(): the next fresh id
    callNo     \* number of calls started so far

vars == <<call, display, files, nextId, callNo>>

\* what a slot holds before its first call
NoCall ==
    [pc |-> "idle", no |-> 0, req |-> [action |-> "screenshot"],
     scaledCoord |-> <<>>, ops |-> <<>>, path |-> 0, chunks |-> <<>>,
     cursor |-> <<>>, res |-> [pending |-> TRUE]]

Init ==
    /\ call = [c \in Slots |-> NoCall]
    /\ display = [cursor |-> <<0, 0>>, leftDown |-> FALSE, keys |-> {}]
    /\ files = <<>>
    /\ nextId = 1
    /\ callNo = 0

\* update some fields of slot c
Set(c, upd) == call' = [call EXCEPT ![c] = upd @@ call[c]]

(* ------------------------ display backend ------------------------------ *)
\* effect of one xdotool sub-command (or `sleep`) on the display
Xdo(d, sub) ==
    CASE sub[1] = "mousemove" -> [d EXCEPT !.cursor = <<sub[2], sub[3]>>]
      [] sub[1] = "keydown"   -> [d EXCEPT !.keys = @ \cup {sub[2]}]
      [] sub[1] = "keyup"     -> [d EXCEPT !.keys = @ \ {sub[2]}]
      [] sub[1] = "mousedown" -> [d EXCEPT !.leftDown = TRUE]
      [] sub[1] = "mouseup"   -> [d EXCEPT !.leftDown = FALSE]
      [] sub[1] = "click"     ->
            IF sub[3] = 1 THEN [d EXCEPT !.leftDown = FALSE] ELSE d
      [] OTHER -> d

\* a command line runs its sub-commands in order and stops at the first
\* one that fails: the display after the first k of them
RECURSIVE RunPrefix(_, _, _)
RunPrefix(d, cmd, k) ==
    IF k = 0 THEN d ELSE Xdo(RunPrefix(d, cmd, k - 1), cmd[k])

\* the least time a sub-command takes, in ms
MinMs(sub) == IF sub[1] = "sleep" THEN sub[2] * 1000 ELSE 0

RECURSIVE PrefixMs(_, _)
PrefixMs(cmd, k) ==
    IF k = 0 THEN 0 ELSE PrefixMs(cmd, k - 1) + MinMs(cmd[k])

\* how a spawned `sh -c command` can end: `done` sub-commands took effect,
\* then the child closed with code 0 ("exit0"), with a non-zero code
\* ("exitN"), was killed by the spawn timeout ("timeout": close with code
\* null) or could not be spawned ("error")
Endings(cmd, timeoutMs) ==
    {[done |-> Len(cmd), end |-> "exit0", stderr |-> ""] :
        x \in {y \in {1} : PrefixMs(cmd, Len(cmd)) <= timeoutMs}}
    \cup {[done |-> k, end |-> "exitN", stderr |-> e] :
            k \in {j \in 0..(Len(cmd) - 1) : PrefixMs(cmd, j) <= timeoutMs},
            e \in {"", "diag"}}
    \cup {[done |-> k, end |-> "timeout", stderr |-> ""] :
            k \in {j \in 0..(Len(cmd) - 1) : PrefixMs(cmd, j) <= timeoutMs}}
    \cup {[done |-> 0, end |-> "error", stderr |-> "spawn"]}

\* the code argument of the child's "close" event; <<>> is null
CloseCode(e) ==
    CASE e.end = "exit0"   -> <<0>>
      [] e.end = "exitN"   -> <<1>>
      [] e.end = "timeout" -> <<>>

\* execCommand: what the promise resolves to for ending e
execCommand(e) ==
    IF e.end = "error"
    THEN [stderr |-> e.stderr, exitCode |-> 1]
    ELSE [stderr |-> e.stderr,
          exitCode |-> IF CloseCode(e) = <<>> THEN 0 ELSE CloseCode(e)[1]]

\* the log entry of a command that was issued and ended with e
Issued(cmd, e) ==
    [cmd |-> cmd, done |-> e.done, exitCode |-> execCommand(e).exitCode,
     timedOut |-> e.end = "timeout"]

(* ------------------------ executeComputerAction ------------------------ *)
\* a validation branch that reports every problem with one fixed message
InvalidGeneric(error) ==
    [pc |-> "done", res |-> [success |-> FALSE, error |-> <<"invalid", "request">>]]

\* `return { success: false, error }` of a validation branch
Invalid(error) == [pc |-> "done", res |-> [success |-> FALSE, error |-> error]]

\* a catch block that throws the error on to the caller
CatchRethrows(message) == [pc |-> "thrown"]

\* a catch block that also hands the message back as output
CatchWithOutput(message) ==
    [pc |-> "done",
     res |-> [success |-> FALSE, error |-> message, output |-> message]]

\* the catch block: `return { success: false, error: message }`
Catch(message) ==
    [pc |-> "done", res |-> [success |-> FALSE, error |-> message]]

\* an optional argument: <<>> when the field is absent
Arg(r, f) == IF Has(r, f) THEN r[f] ELSE <<>>

\* the duration tests without the upper bound
checkDurationNoUpper(r, next) ==
    IF ~Has(r, "duration") \/ r.duration <= 0
    THEN Invalid(<<"duration", "required", "for", r.action, "action">>)
    ELSE next

\* the two duration tests of the hold_key and wait branches
checkDuration(r, next) ==
    IF ~Has(r, "duration") \/ r.duration <= 0
    THEN Invalid(<<"duration", "required", "for", r.action, "action">>)
    ELSE IF r.duration > MAX_DURATION_SEC
    THEN Invalid(<<"duration", "too", "long", "(max", "100", "seconds)">>)
    ELSE next

\* the switch of executeComputerAction up to its first await: the fields of
\* the call after validation, for request r with scaled coordinate sc
Dispatch(r, sc) ==
    LET a == r.action IN
    CASE a = "screenshot" -> [pc |-> "captureScreenshot"]
      [] a = "cursor_position" -> [pc |-> "getCursorPosition"]
      [] a = "mouse_move" ->
            IF sc = <<>>
            THEN Invalid(<<"coordinate", "required", "for", "mouse_move">>)
            ELSE [pc |-> "mouseMove"]
      [] a \in DOMAIN CLICK_BUTTONS -> [pc |-> "mouseClick"]
      [] a = "left_click_drag" ->
            IF sc = <<>>
            THEN Invalid(<<"coordinate", "required", "for", "left_click_drag">>)
            ELSE [pc |-> "getCursorPosition"]
      [] a \in {"left_mouse_down", "left_mouse_up"} -> [pc |-> "mouseButton"]
      [] a = "scroll" ->
            IF ~Has(r, "scrollDirection")
            THEN Invalid(<<"scrollDirection", "required", "for", "scroll">>)
            ELSE [pc |-> "scroll"]
      [] a = "key" ->
            IF ~Truthy(r, "text")
            THEN Invalid(<<"text", "(key", "combination)", "required", "for",
                           "key", "action">>)
            ELSE [pc |-> "keyPress"]
      [] a = "type" ->
            IF ~Truthy(r, "text")
            THEN Invalid(<<"text", "required", "for", "type", "action">>)
            ELSE [pc |-> "typeText", chunks |-> Chunks(r.text)]
      [] a = "hold_key" ->
            IF ~Truthy(r, "text")
            THEN Invalid(<<"text", "(key)", "required", "for", "hold_key",
                           "action">>)
            ELSE checkDuration(r, [pc |-> "holdKey"])
      [] a = "wait" ->
            checkDuration(r, [pc |-> "wait"])
      [] OTHER -> Invalid(<<"Unknown", "action:", a>>)

\* the values scaledCoord can take for request r (<<>> models undefined)
ScaledCoord(r) ==
    IF Has(r, "coordinate")
    THEN scaleCoordinates(r.coordinate[1], r.coordinate[2],
                          Dim(r, "displayWidth"), Dim(r, "displayHeight"),
                          Dim(r, "screenWidth"), Dim(r, "screenHeight"))
    ELSE {<<>>}

\* a call with a request of R starts: destructuring, scaling, validation,
\* dispatch
executeComputerActionOn(c, R) ==
    /\ call[c].pc = "idle"
    /\ callNo < MaxCalls
    /\ \E r \in R : \E sc \in ScaledCoord(r) :
        call' = [call EXCEPT ![c] =
            Dispatch(r, sc) @@
            ([no |-> callNo + 1, req |-> r, scaledCoord |-> sc] @@ NoCall)]
    /\ callNo' = callNo + 1
    /\ UNCHANGED <<display, files, nextId>>

executeComputerAction(c) == executeComputerActionOn(c, Requests)

\* an input helper: run cmd; a non-zero exit code throws errorPrefix + stderr
\* into the catch block, otherwise the call goes on with `next`
InputStep(c, cmd, errorPrefix, next) ==
    \E e \in Endings(cmd, DEFAULT_TIMEOUT_MS) :
        LET result == execCommand(e)
            ops == Append(call[c].ops, Issued(cmd, e))
        IN  /\ display' = RunPrefix(display, cmd, e.done)
            /\ IF result.exitCode # 0
               THEN Set(c, Catch(errorPrefix \o <<result.stderr>>)
                           @@ [ops |-> ops])
               ELSE Set(c, next @@ [ops |-> ops])
            /\ UNCHANGED <<files, nextId, callNo>>

\* a branch that goes from the input operation straight to the capture
SettleSkipsWait == [pc |-> "captureScreenshot"]

\* `await wait(SCREENSHOT_DELAY_MS / 1000)` comes next
Settle == [pc |-> "wait"]

mouseMove(c) ==
    /\ call[c].pc = "mouseMove"
    /\ InputStep(c,
            <<<<"mousemove", call[c].scaledCoord[1], call[c].scaledCoord[2]>>>>,
            <<"Mouse", "move", "failed:">>, Settle)

\* the optional parts of the mouseClick and scroll command lines
MoveTo(coordinate) ==
    IF coordinate # <<>>
    THEN <<<<"mousemove", coordinate[1], coordinate[2]>>>> ELSE <<>>
KeyDown(modifierKey) ==
    IF modifierKey # <<>> THEN <<<<"keydown", modifierKey>>>> ELSE <<>>
KeyUp(modifierKey) ==
    IF modifierKey # <<>> THEN <<<<"keyup", modifierKey>>>> ELSE <<>>

mouseClickCommand(action, coordinate, modifierKey) ==
    MoveTo(coordinate) \o KeyDown(modifierKey)
    \o <<<<"click", CLICK_BUTTONS[action][1], CLICK_BUTTONS[action][2]>>>>
    \o KeyUp(modifierKey)

mouseClick(c) ==
    /\ call[c].pc = "mouseClick"
    /\ InputStep(c,
            mouseClickCommand(call[c].req.action, call[c].scaledCoord,
                              Arg(call[c].req, "key")),
            <<"Mouse", "click", "failed:">>, Settle)

\* getCursorPosition, then the rest of the cursor_position branch or the
\* call of leftClickDrag. stdout holds the location only when the command
\* ran; output.split("X=")[1] ?? "0" parses an empty stdout as 0.
getCursorPosition(c) ==
    /\ call[c].pc = "getCursorPosition"
    /\ LET cmd == <<<<"getmouselocation">>>> IN
       \E e \in Endings(cmd, DEFAULT_TIMEOUT_MS) :
        LET result == execCommand(e)
            ops == Append(call[c].ops, Issued(cmd, e))
            xy == IF e.done = 1 THEN display.cursor ELSE <<0, 0>>
            r == call[c].req
        IN  \E api \in toApi(xy[1], xy[2],
                              Dim(r, "displayWidth"), Dim(r, "displayHeight"),
                              Dim(r, "screenWidth"), Dim(r, "screenHeight")) :
            IF result.exitCode # 0
            THEN Set(c, Catch(<<"Failed", "to", "get", "cursor", "position:",
                                result.stderr>>) @@ [ops |-> ops])
            ELSE IF call[c].req.action = "cursor_position"
            THEN Set(c, [pc |-> "done", ops |-> ops,
                         res |-> [success |-> TRUE, cursorPosition |-> api,
                                  output |-> <<"X=", api[1], ",Y=", api[2]>>]])
            ELSE Set(c, [pc |-> "leftClickDrag", cursor |-> xy, ops |-> ops])
    /\ UNCHANGED <<display, files, nextId, callNo>>

\* a chain that presses at the end point and releases at the start point
leftClickDragReversed(startX, startY, endX, endY) ==
    << <<"mousemove", endX, endY>>, <<"mousedown", 1>>,
       <<"mousemove", startX, startY>>, <<"mouseup", 1>> >>

\* the xdotool chain of leftClickDrag
leftClickDragCommand(startX, startY, endX, endY) ==
    << <<"mousemove", startX, startY>>, <<"mousedown", 1>>,
       <<"mousemove", endX, endY>>, <<"mouseup", 1>> >>

leftClickDrag(c) ==
    /\ call[c].pc = "leftClickDrag"
    /\ InputStep(c,
            leftClickDragCommand(call[c].cursor[1], call[c].cursor[2],
                                 call[c].scaledCoord[1], call[c].scaledCoord[2]),
            <<"Click", "drag", "failed:">>, Settle)

\* a button helper that moves to the request's coordinate first
mouseButtonMoves(c) ==
    /\ call[c].pc = "mouseButton"
    /\ InputStep(c,
            MoveTo(call[c].scaledCoord)
            \o (IF call[c].req.action = "left_mouse_down"
                THEN <<<<"mousedown", 1>>>> ELSE <<<<"mouseup", 1>>>>),
            <<"Mouse", "button", "failed:">>, Settle)

mouseButton(c) ==
    /\ call[c].pc = "mouseButton"
    /\ InputStep(c,
            IF call[c].req.action = "left_mouse_down"
            THEN <<<<"mousedown", 1>>>> ELSE <<<<"mouseup", 1>>>>,
            <<"Mouse", "button", "failed:">>, Settle)

scrollCommand(direction, amount, coordinate, modifierKey) ==
    MoveTo(coordinate) \o KeyDown(modifierKey)
    \o <<<<"click", amount, SCROLL_BUTTONS[direction]>>>>
    \o KeyUp(modifierKey)

\* `await scroll(scrollDirection, amount, scaledCoord, text, displayNum)`
scroll(c) ==
    /\ call[c].pc = "scroll"
    /\ LET r == call[c].req
           amount == IF Has(r, "scrollAmount") THEN r.scrollAmount
                     ELSE DEFAULT_SCROLL_AMOUNT
       IN  InputStep(c,
                scrollCommand(r.scrollDirection, amount, call[c].scaledCoord,
                              Arg(r, "text")),
                <<"Scroll", "failed:">>, Settle)

keyPress(c) ==
    /\ call[c].pc = "keyPress"
    /\ InputStep(c, <<<<"key", call[c].req.text>>>>,
                 <<"Key", "press", "failed:">>, Settle)

\* chunk.replace(/'/g, "'\\''"): each quote becomes the four characters '\''
RECURSIVE Escape(_)
Escape(chunk) ==
    IF chunk = <<>> THEN <<>>
    ELSE (IF Head(chunk) = "'" THEN <<"'", "\\", "'", "'">> ELSE <<Head(chunk)>>)
         \o Escape(Tail(chunk))

\* what sh hands to xdotool for the word '<escaped>': inside single quotes
\* every character is literal, outside them \' is a quote
RECURSIVE ShWord(_, _)
ShWord(w, quoted) ==
    IF w = <<>> THEN <<>>
    ELSE IF Head(w) = "'" THEN ShWord(Tail(w), ~quoted)
    ELSE IF ~quoted /\ Head(w) = "\\" /\ Len(w) >= 2
    THEN <<w[2]>> \o ShWord(SubSeq(w, 3, Len(w)), quoted)
    ELSE <<Head(w)>> \o ShWord(Tail(w), quoted)

\* one turn of the chunk loop of typeText
typeText(c) ==
    /\ call[c].pc = "typeText"
    /\ call[c].chunks # <<>>
    /\ LET chunk == Head(call[c].chunks)
           typed == ShWord(<<"'">> \o Escape(chunk) \o <<"'">>, FALSE)
           rest == Tail(call[c].chunks)
       IN  InputStep(c, <<<<"type", typed>>>>, <<"Type", "text", "failed:">>,
                     IF rest = <<>> THEN Settle @@ [chunks |-> rest]
                     ELSE [pc |-> "typeText", chunks |-> rest])

\* `xdotool keydown keys && sleep durationSec && xdotool keyup keys`
holdKey(c) ==
    /\ call[c].pc = "holdKey"
    /\ InputStep(c,
            << <<"keydown", call[c].req.text>>,
               <<"sleep", call[c].req.duration>>,
               <<"keyup", call[c].req.text>> >>,
            <<"Hold", "key", "failed:">>, Settle)

\* wait(durationSec): setTimeout(resolve, durationSec * 1000); the wait branch
\* passes duration, every other branch SCREENSHOT_DELAY_MS / 1000
waitMs(r) ==
    IF r.action = "wait" THEN r.duration * 1000 ELSE SCREENSHOT_DELAY_MS

\* a wait whose timer never fires
waitForever(c) ==
    /\ call[c].pc = "wait"
    /\ UNCHANGED vars

\* `await wait(...)`, which captureScreenshot always follows
wait(c) ==
    /\ call[c].pc = "wait"
    /\ Set(c, [pc |-> "captureScreenshot",
               ops |-> Append(call[c].ops,
                    [cmd |-> <<<<"wait", waitMs(call[c].req)>>>>, done |-> 1,
                     exitCode |-> 0, timedOut |-> FALSE])])
    /\ UNCHANGED <<display, files, nextId, callNo>>

(* --------------------------- captureScreenshot ------------------------- *)
\* a temp path that does not depend on the id
computerTempPathFixed(id) == 0

\* computerTempPath(): the id is a fresh randomUUID(), so is the path
computerTempPath(id) == id

\* buffer.toString("base64")
Base64(content) == <<"base64", content>>

\* a branch that returns success without attaching the capture
ScreenshotResultEmpty(base64) == [success |-> TRUE]

\* `return { success: true, screenshot: base64 }`
ScreenshotResult(base64) == [success |-> TRUE, screenshot |-> base64]

\* the file at path now holds content (scrot -o and gnome-screenshot -f
\* overwrite)
WriteFile(fs, path, content) == (path :> content) @@ fs

\* `const filePath = computerTempPath()` and `scrot -o filePath`; a non-zero
\* exit code leads to the gnome-screenshot fallback
captureScrot(c) ==
    /\ call[c].pc = "captureScreenshot"
    /\ LET filePath == computerTempPath(nextId)
           cmd == <<<<"scrot", filePath>>>>
       IN  \E e \in Endings(cmd, DEFAULT_TIMEOUT_MS) :
            LET result == execCommand(e) IN
            /\ files' = IF e.done = 1
                        THEN WriteFile(files, filePath,
                                [by |-> call[c].no, scaled |-> FALSE])
                        ELSE files
            /\ Set(c, [pc |-> IF result.exitCode # 0 THEN "gnomeScreenshot"
                              ELSE "convert",
                       path |-> filePath,
                       ops |-> Append(call[c].ops, Issued(cmd, e))])
    /\ nextId' = nextId + 1
    /\ UNCHANGED <<display, callNo>>

\* `gnome-screenshot -f filePath`; a non-zero exit code throws
captureFallback(c) ==
    /\ call[c].pc = "gnomeScreenshot"
    /\ LET filePath == call[c].path
           cmd == <<<<"gnome-screenshot", filePath>>>>
       IN  \E e \in Endings(cmd, DEFAULT_TIMEOUT_MS) :
            LET result == execCommand(e)
                ops == Append(call[c].ops, Issued(cmd, e))
            IN
            /\ files' = IF e.done = 1
                        THEN WriteFile(files, filePath,
                                [by |-> call[c].no, scaled |-> FALSE])
                        ELSE files
            /\ IF result.exitCode # 0
               THEN Set(c, Catch(<<"Screenshot", "failed:",
                                   IF result.stderr # "" THEN result.stderr
                                   ELSE "unknown error">>) @@ [ops |-> ops])
               ELSE Set(c, [pc |-> "convert", ops |-> ops])
    /\ UNCHANGED <<display, nextId, callNo>>

\* `convert filePath -resize WxH! filePath`: it can only run when the file
\* is there; its result is not looked at
captureResize(c) ==
    /\ call[c].pc = "convert"
    /\ LET filePath == call[c].path
           cmd == <<<<"convert", filePath, Dim(call[c].req, "displayWidth"),
                      Dim(call[c].req, "displayHeight")>>>>
       IN  \E e \in Endings(cmd, DEFAULT_TIMEOUT_MS) :
            /\ e.done = 1 => filePath \in DOMAIN files
            /\ files' = IF e.done = 1
                        THEN [files EXCEPT ![filePath].scaled = TRUE]
                        ELSE files
            /\ Set(c, [pc |-> "readFile",
                       ops |-> Append(call[c].ops, Issued(cmd, e))])
    /\ UNCHANGED <<display, nextId, callNo>>

\* `fs.readFile(filePath)` throws when the file is missing or unreadable;
\* otherwise captureScreenshot returns and the branch returns
\* { success: true, screenshot: base64 }
captureRead(c) ==
    /\ call[c].pc = "readFile"
    /\ LET filePath == call[c].path
           cmd == <<<<"readFile", filePath>>>>
       IN  \E ok \in BOOLEAN :
            LET read == ok /\ filePath \in DOMAIN files
                ops == Append(call[c].ops,
                        [cmd |-> cmd, done |-> IF read THEN 1 ELSE 0,
                         exitCode |-> IF read THEN 0 ELSE 1,
                         timedOut |-> FALSE])
            IN  IF read
                THEN Set(c, [pc |-> "done", ops |-> ops,
                             res |-> ScreenshotResult(Base64(files[filePath]))])
                ELSE Set(c, Catch(<<IF filePath \in DOMAIN files THEN "EIO:"
                                    ELSE "ENOENT:", "read", "filePath">>)
                            @@ [ops |-> ops])
    /\ UNCHANGED <<display, files, nextId, callNo>>

\* the caller (the tool's execute) has taken the result of
\* `await executeComputerAction(...)`; nothing of the call is kept
toolResult(c) ==
    /\ call[c].pc = "done"
    /\ call' = [call EXCEPT ![c] = NoCall]
    /\ UNCHANGED <<display, files, nextId, callNo>>

(* --------------------------- specification ----------------------------- *)
\* one call at a time, in slot 1
Next ==
    \/ executeComputerAction(1)
    \/ mouseMove(1)
    \/ mouseClick(1)
    \/ getCursorPosition(1)
    \/ leftClickDrag(1)
    \/ mouseButton(1)
    \/ scroll(1)
    \/ keyPress(1)
    \/ typeText(1)
    \/ holdKey(1)
    \/ wait(1)
    \/ captureScrot(1)
    \/ captureFallback(1)
    \/ captureResize(1)
    \/ captureRead(1)
    \/ toolResult(1)

Spec == Init /\ [][Next]_vars

\* typing runs: one call at a time, each a `type` of a text of TypeRequests
NextType ==
    \/ executeComputerActionOn(1, TypeRequests)
    \/ typeText(1)
    \/ wait(1)
    \/ captureScrot(1)
    \/ captureFallback(1)
    \/ captureResize(1)
    \/ captureRead(1)
    \/ toolResult(1)

SpecType == Init /\ [][NextType]_vars

\* coordinate runs: a mouse_move of MoveRequests in slot 1 and, when it has
\* returned, a cursor_position with the same dimensions in slot 2
NextCoord ==
    \/ executeComputerActionOn(1, MoveRequests)
    \/ mouseMove(1)
    \/ wait(1)
    \/ captureScrot(1)
    \/ captureFallback(1)
    \/ captureResize(1)
    \/ captureRead(1)
    \/ (call[1].pc = "done"
        /\ executeComputerActionOn(2,
                {[action |-> "cursor_position"] @@ DimsOf(call[1].req)}))
    \/ getCursorPosition(2)

SpecCoord == Init /\ [][NextCoord]_vars

\* concurrent runs: screenshot calls in all slots, their steps interleaved
ConcRequests == {[action |-> "screenshot"]}

NextConc ==
    \E c \in Slots :
        \/ executeComputerActionOn(c, ConcRequests)
        \/ captureScrot(c)
        \/ captureFallback(c)
        \/ captureResize(c)
        \/ captureRead(c)
        \/ toolResult(c)

SpecConc == Init /\ [][NextConc]_vars

\* concurrent drag runs: drags and pointer moves in all slots, their steps
\* interleaved
DragRequests ==
    {[action |-> "left_click_drag", coordinate |-> <<640, 400>>],
     [action |-> "mouse_move", coordinate |-> <<320, 200>>]}

NextDrag ==
    \E c \in Slots :
        \/ executeComputerActionOn(c, DragRequests)
        \/ getCursorPosition(c)
        \/ leftClickDrag(c)
        \/ mouseMove(c)
        \/ wait(c)
        \/ captureScrot(c)
        \/ captureFallback(c)
        \/ captureResize(c)
        \/ captureRead(c)
        \/ toolResult(c)

SpecDrag == Init /\ [][NextDrag]_vars

\* an awaited step of call c: a backend command, the timer or the file read
Step(c) ==
    \/ mouseMove(c)
    \/ mouseClick(c)
    \/ getCursorPosition(c)
    \/ leftClickDrag(c)
    \/ mouseButton(c)
    \/ scroll(c)
    \/ keyPress(c)
    \/ typeText(c)
    \/ holdKey(c)
    \/ wait(c)
    \/ captureScrot(c)
    \/ captureFallback(c)
    \/ captureResize(c)
    \/ captureRead(c)

\* runs of one call with any request of Requests, in which every awaited
\* step ends: the child closes, fails to spawn or is killed by the timeout,
\* the timer fires, the read settles
NextLive ==
    \/ executeComputerAction(1)
    \/ Step(1)

SpecLive == Init /\ [][NextLive]_vars /\ WF_vars(Step(1))

\* cursor runs: the pointer is somewhere on the screen, and cursor_position
\* calls of PosRequests query it, one at a time
InitCursor ==
    /\ call = [c \in Slots |-> NoCall]
    /\ display \in {[cursor |-> p, leftDown |-> FALSE, keys |-> {}] :
                        p \in RawPoints}
    /\ files = <<>>
    /\ nextId = 1
    /\ callNo = 0

NextCursor ==
    \/ executeComputerActionOn(1, PosRequests)
    \/ getCursorPosition(1)
    \/ toolResult(1)

SpecCursor == InitCursor /\ [][NextCursor]_vars

(* ------------------------------ claims --------------------------------- *)
Returned(c) == call[c].pc = "done"
Res(c) == call[c].res
Req(c) == call[c].req
Ops(c) == call[c].ops

\* the words of an error message
Names(error, word) == \E i \in DOMAIN error : error[i] = word

\* the sub-commands of the i-th command line issued by call c
Tool(op) == op.cmd[1][1]
CaptureTools == {"scrot", "gnome-screenshot", "convert", "readFile"}
IsInput(op) == Tool(op) \notin CaptureTools \cup {"wait"}

\* a step of call c failed: an input or cursor-query command line ended with
\* a non-zero exit status or could not be spawned, the capture step failed
\* (the last capture utility tried ended that way), or the file read threw
StepFailed(c) ==
    \E i \in DOMAIN Ops(c) :
        /\ Ops(c)[i].exitCode # 0
        /\ \/ IsInput(Ops(c)[i])
           \/ Tool(Ops(c)[i]) \in {"gnome-screenshot", "readFile"}

C2_ResultInvariant ==
    \A c \in Slots :
        Returned(c) =>
            /\ Res(c).success \in BOOLEAN
            /\ Res(c).success = FALSE =>
                /\ Has(Res(c), "error")
                /\ Res(c).error # <<>>
                /\ DOMAIN Res(c) \cap {"screenshot", "cursorPosition", "output"}
                        = {}
            /\ Res(c).success = TRUE => ~Has(Res(c), "error")

\* a failed call that had already queried the cursor and dragged
C2_Witness ==
    \E c \in Slots :
        /\ Returned(c)
        /\ Res(c).success = FALSE
        /\ Req(c).action = "left_click_drag"
        /\ Len(Ops(c)) >= 3

\* the fields the claim lists as required for an action kind
RequiredFields(a) ==
    CASE a \in {"mouse_move", "left_click_drag"} -> {"coordinate"}
      [] a \in {"key", "type"} -> {"text"}
      [] a = "hold_key" -> {"text", "duration"}
      [] a = "scroll" -> {"scrollDirection"}
      [] a = "wait" -> {"duration"}
      [] OTHER -> {}
\* a field is missing when the request does not carry it; a text that is the
\* empty string carries no key or text either
IsMissing(r, f) == ~Has(r, f) \/ (f = "text" /\ r[f] = <<>>)
MissingFields(r) == {f \in RequiredFields(r.action) : IsMissing(r, f)}

\* C3: fail-fast validation: a call whose request lacks a required field, or
\* whose action is not one of the sixteen kinds, returns success=false with
\* an error that names a missing field and the action (or says the action
\* is unknown and names it), and has issued no backend operation at all.
C3_FailFast ==
    \A c \in Slots :
        (call[c].pc # "idle"
         /\ (MissingFields(Req(c)) # {} \/ Req(c).action \notin COMPUTER_ACTIONS))
        =>  /\ Returned(c)
            /\ Res(c).success = FALSE
            /\ Ops(c) = <<>>
            /\ IF Req(c).action \in COMPUTER_ACTIONS
               THEN /\ \E f \in MissingFields(Req(c)) : Names(Res(c).error, f)
                    /\ Names(Res(c).error, Req(c).action)
               ELSE /\ Names(Res(c).error, "Unknown")
                    /\ Names(Res(c).error, Req(c).action)

\* hold_key with a key and a coordinate but no duration: rejected before
\* anything was issued
C3_Witness ==
    \E c \in Slots :
        /\ Returned(c)
        /\ Req(c).action = "hold_key"
        /\ MissingFields(Req(c)) = {"duration"}
        /\ Has(Req(c), "coordinate")
        /\ Ops(c) = <<>>

\* wait, or hold_key with a key to hold, carrying a duration
DurationCase(c) ==
    /\ call[c].pc # "idle"
    /\ Req(c).action \in {"wait", "hold_key"}
    /\ Req(c).action = "hold_key" => Truthy(Req(c), "text")
    /\ Has(Req(c), "duration")

\* the error message states a bound of the duration
StatesBound(error) == Names(error, "100") \/ Names(error, "0")

\* the first thing an accepted wait or hold_key does
DurationStep(r) ==
    IF r.action = "wait" THEN <<<<"wait", r.duration * 1000>>>>
    ELSE << <<"keydown", r.text>>, <<"sleep", r.duration>>,
            <<"keyup", r.text>> >>

\* C4 as claimed: a duration that is 0, negative or greater than 100 yields
\* success=false with an error that states the bound, and nothing is issued.
C4_Original ==
    \A c \in Slots :
        (DurationCase(c)
         /\ (Req(c).duration <= 0 \/ Req(c).duration > MAX_DURATION_SEC))
        =>  /\ Returned(c)
            /\ Res(c).success = FALSE
            /\ StatesBound(Res(c).error)
            /\ Ops(c) = <<>>

\* C4 (amended): for wait and hold_key a duration greater than 100 yields
\* success=false with an error that states the bound (max 100), a duration
\* that is 0 or negative yields success=false with the error "duration
\* required for <action> action", which states no bound; in both cases
\* nothing is issued (no sleep, no key press, hold or release). A duration d
\* with 0 < d <= 100 is accepted: the call goes on to the sleep, or to the
\* key press/hold/release command, with that d.
C4_DurationBounds ==
    \A c \in Slots :
        DurationCase(c) =>
            LET d == Req(c).duration IN
            /\ d > MAX_DURATION_SEC =>
                /\ Returned(c) /\ Res(c).success = FALSE /\ Ops(c) = <<>>
                /\ Names(Res(c).error, "100")
                /\ Names(Res(c).error, "(max")
            /\ d <= 0 =>
                /\ Returned(c) /\ Res(c).success = FALSE /\ Ops(c) = <<>>
                /\ Res(c).error =
                    <<"duration", "required", "for", Req(c).action, "action">>
                /\ ~StatesBound(Res(c).error)
            /\ (0 < d /\ d <= MAX_DURATION_SEC) =>
                IF Ops(c) = <<>>
                THEN call[c].pc =
                        (IF Req(c).action = "wait" THEN "wait" ELSE "holdKey")
                ELSE Ops(c)[1].cmd = DurationStep(Req(c))

\* hold_key with a key and duration 0 or less has returned
C4_Witness ==
    \E c \in Slots :
        /\ DurationCase(c)
        /\ Returned(c)
        /\ Req(c).action = "hold_key"
        /\ Req(c).duration <= 0

\* C5: temporary-file cleanup: once a call has returned, the file its
\* screenshot capture created does not exist any more, so whenever no call
\* is in flight the temp directory holds no file.
C5_TempFileCleanup ==
    (\A c \in Slots : call[c].pc \in {"idle", "done"}) => DOMAIN files = {}

\* C6: a backend command that timed out makes the call fail: a call that
\* has returned after one of its commands was killed by the timeout has
\* returned success=false.
C6_TimeoutIsFailure ==
    \A c \in Slots :
        (Returned(c) /\ \E i \in DOMAIN Ops(c) : Ops(c)[i].timedOut)
        => Res(c).success = FALSE

\* C7: hold_key with a key and a duration in (0,100] presses the key, holds
\* it for the duration and releases it: when the call has returned the key
\* is not held on the display, and a successful call ran all of
\* keydown, sleep, keyup.
C7_HoldKeyReleases ==
    \A c \in Slots :
        (Returned(c) /\ DurationCase(c) /\ Req(c).action = "hold_key"
         /\ 0 < Req(c).duration /\ Req(c).duration <= MAX_DURATION_SEC)
        =>  /\ Req(c).text \notin display.keys
            /\ Res(c).success = TRUE => Ops(c)[1].done = 3

\* position of the first sub-command named op in a command line; 0 if none
RECURSIVE IndexOf(_, _, _)
IndexOf(cmd, sub, i) ==
    IF i > Len(cmd) THEN 0
    ELSE IF cmd[i] = sub THEN i ELSE IndexOf(cmd, sub, i + 1)
IndexOfOp(cmd, op) ==
    LET hits == {i \in DOMAIN cmd : cmd[i][1] = op}
    IN  IF hits = {} THEN 0 ELSE CHOOSE i \in hits : \A j \in hits : i <= j

\* no command line issued by call c presses or releases a key
NoKeyOps(c) ==
    \A i \in DOMAIN Ops(c) :
        \A j \in DOMAIN Ops(c)[i].cmd :
            Ops(c)[i].cmd[j][1] \notin {"keydown", "keyup"}

\* in command line cmd, key k is pressed after any pointer move and before
\* the click, and released after the click; no other key is touched
Brackets(cmd, k) ==
    LET down == IndexOf(cmd, <<"keydown", k>>, 1)
        up == IndexOf(cmd, <<"keyup", k>>, 1)
        click == IndexOfOp(cmd, "click")
        move == IndexOfOp(cmd, "mousemove")
    IN  /\ click > 0
        /\ move < down /\ down < click /\ click < up
        /\ \A j \in DOMAIN cmd :
            cmd[j][1] \in {"keydown", "keyup"} => cmd[j][2] = k

ClickCase(c) ==
    /\ Returned(c)
    /\ Req(c).action \in DOMAIN CLICK_BUTTONS

\* C8: click modifier bracketing: a click call with a modifier key presses
\* it after the optional pointer move and before the click, releases it
\* after the click, and the key is not held when the call has returned,
\* with success or with failure; without a modifier no key is pressed or
\* released.
C8_ClickModifier ==
    \A c \in Slots :
        ClickCase(c) =>
            IF Truthy(Req(c), "key")
            THEN /\ Brackets(Ops(c)[1].cmd, Req(c).key)
                 /\ Req(c).key \notin display.keys
            ELSE NoKeyOps(c)

\* C9: scroll modifier: a scroll whose request carries a modifier key in
\* its key field presses exactly that key before the scroll clicks and
\* releases it after them; a scroll without a modifier key issues no key
\* press or release.
C9_ScrollModifier ==
    \A c \in Slots :
        (Returned(c) /\ Req(c).action = "scroll"
         /\ Has(Req(c), "scrollDirection"))
        =>  IF Truthy(Req(c), "key")
            THEN Brackets(Ops(c)[1].cmd, Req(c).key)
            ELSE NoKeyOps(c)

CaptureOps(c) == {i \in DOMAIN Ops(c) : Tool(Ops(c)[i]) \in CaptureTools}

\* C10: post-action screenshot policy: a successful call of a kind other
\* than cursor_position returns a screenshot, and that screenshot is the
\* encoding of an image written by a capture utility run in this very call;
\* a successful cursor_position returns the cursor position, no screenshot,
\* and has run no capture.
C10_ScreenshotPolicy ==
    \A c \in Slots :
        (Returned(c) /\ Res(c).success = TRUE) =>
            IF Req(c).action = "cursor_position"
            THEN /\ Has(Res(c), "cursorPosition")
                 /\ ~Has(Res(c), "screenshot")
                 /\ CaptureOps(c) = {}
            ELSE /\ Has(Res(c), "screenshot")
                 /\ \E content \in {files[p] : p \in DOMAIN files} :
                        /\ Res(c).screenshot = Base64(content)
                        /\ content.by = call[c].no
                 /\ \E i \in CaptureOps(c) :
                        /\ Tool(Ops(c)[i]) \in {"scrot", "gnome-screenshot"}
                        /\ Ops(c)[i].done = 1

\* the second call of a behaviour pressed a key combination and returned a
\* screenshot, while the file of the first call is still around
C10_Witness ==
    \E c \in Slots :
        /\ Returned(c)
        /\ Res(c).success = TRUE
        /\ Req(c).action = "key"
        /\ Has(Res(c), "screenshot")
        /\ call[c].no = 2
        /\ Cardinality(DOMAIN files) = 2

\* the actions that change the display and then capture it
StateChanging ==
    {"mouse_move", "left_click_drag", "left_mouse_down", "left_mouse_up",
     "key", "type", "scroll", "hold_key"} \cup DOMAIN CLICK_BUTTONS
CapturePcs == {"captureScreenshot", "gnomeScreenshot", "convert", "readFile"}
IsCapture(op) == Tool(op) \in CaptureTools
\* the command lines a state-changing request awaits before the settle
\* delay: the cursor query and the drag, one line per chunk, or one line
InputSteps(r) ==
    CASE r.action = "left_click_drag" -> 2
      [] r.action = "type" -> Len(Chunks(r.text))
      [] OTHER -> 1

\* C11: step ordering within one call of a state-changing action. The log of
\* a call lists its steps in the order they were awaited, each entered when
\* it had ended, so no two steps overlap; every input command line comes
\* before the one settle delay of SCREENSHOT_DELAY_MS, which comes before
\* every capture step; and the capture starts only when all input command
\* lines of the action have ended and the delay has elapsed.
C11_StepOrdering ==
    \A c \in Slots :
        (call[c].no > 0 /\ Req(c).action \in StateChanging) =>
        LET ins == {i \in DOMAIN Ops(c) : IsInput(Ops(c)[i])}
            waits == {i \in DOMAIN Ops(c) : Tool(Ops(c)[i]) = "wait"}
            caps == {i \in DOMAIN Ops(c) : IsCapture(Ops(c)[i])}
        IN  /\ \A i \in ins : \A w \in waits : i < w
            /\ \A w \in waits : \A k \in caps : w < k
            /\ \A i \in ins : \A k \in caps : i < k
            /\ Cardinality(waits) <= 1
            /\ \A w \in waits :
                    Ops(c)[w].cmd = <<<<"wait", SCREENSHOT_DELAY_MS>>>>
            /\ (call[c].pc \in CapturePcs \/ caps # {}) =>
                    /\ Cardinality(waits) = 1
                    /\ Cardinality(ins) = InputSteps(Req(c))
            /\ call[c].pc = "wait" =>
                    /\ waits = {}
                    /\ Cardinality(ins) = InputSteps(Req(c))

\* a drag has returned its screenshot after query, drag, delay and capture
C11_Witness ==
    \E c \in Slots :
        /\ Returned(c)
        /\ Req(c).action = "left_click_drag"
        /\ Has(Res(c), "screenshot")
        /\ Len(Ops(c)) = 6
        /\ Tool(Ops(c)[3]) = "wait"

\* C12: once a backend command issued by a call has failed (non-zero exit
\* status, not spawned, or a failed read), it is the last command of the
\* call: nothing is issued after it, and the call has returned one
\* success=false result.
C12_NoRetry ==
    \A c \in Slots : \A i \in DOMAIN Ops(c) :
        Ops(c)[i].exitCode # 0 =>
            /\ i = Len(Ops(c))
            /\ Returned(c)
            /\ Res(c).success = FALSE

\* the sub-commands of command line cmd that are named tool
Subs(cmd, tool) == {i \in DOMAIN cmd : cmd[i][1] = tool}
\* the command lines of call c that hold a sub-command named tool
OpsWith(c, tool) == {i \in DOMAIN Ops(c) : Subs(Ops(c)[i].cmd, tool) # {}}
\* the request's coordinate in screen space
Mapped(r) ==
    scaleCoordinates(r.coordinate[1], r.coordinate[2],
                     Dim(r, "displayWidth"), Dim(r, "displayHeight"),
                     Dim(r, "screenWidth"), Dim(r, "screenHeight"))

\* C14: left_click_drag with a coordinate first queries the cursor position
\* and only after the query has succeeded issues the drag, as the second
\* command line: move to the position the query returned (the display's
\* cursor, when the query ran), press button 1, move to the coordinate mapped
\* to screen space, release button 1. Without a coordinate the call returns
\* success=false with an error naming coordinate and left_click_drag, and no
\* command line (query or drag) is issued.
C14_LeftClickDrag ==
    \A c \in Slots :
        (call[c].no > 0 /\ Req(c).action = "left_click_drag") =>
        IF ~Has(Req(c), "coordinate")
        THEN /\ Returned(c)
             /\ Res(c).success = FALSE
             /\ Names(Res(c).error, "coordinate")
             /\ Names(Res(c).error, "left_click_drag")
             /\ Ops(c) = <<>>
        ELSE /\ Ops(c) # <<>> => Ops(c)[1].cmd = <<<<"getmouselocation">>>>
             /\ call[c].pc = "getCursorPosition" <=> Ops(c) = <<>>
             /\ call[c].pc = "leftClickDrag" =>
                    /\ Len(Ops(c)) = 1
                    /\ Ops(c)[1].exitCode = 0
                    /\ Ops(c)[1].done = 1 => call[c].cursor = display.cursor
             /\ OpsWith(c, "mousedown") \cup OpsWith(c, "mouseup")
                    \cup OpsWith(c, "mousemove") \subseteq {2}
             /\ Len(Ops(c)) >= 2 =>
                    /\ Ops(c)[1].exitCode = 0
                    /\ \E m \in Mapped(Req(c)) :
                        Ops(c)[2].cmd =
                            << <<"mousemove", call[c].cursor[1],
                                 call[c].cursor[2]>>,
                               <<"mousedown", 1>>,
                               <<"mousemove", m[1], m[2]>>,
                               <<"mouseup", 1>> >>
                    /\ Req(c).coordinate = <<640, 400>> =>
                            Ops(c)[2].cmd[3] = <<"mousemove", 960, 540>>

\* a drag that ran to its end from a cursor position other than the origin
C14_Witness ==
    \E c \in Slots :
        /\ Req(c).action = "left_click_drag"
        /\ Len(Ops(c)) >= 2
        /\ Ops(c)[2].done = 4
        /\ call[c].cursor = <<960, 540>>
        /\ Returned(c) /\ Res(c).success = TRUE

\* the wheel button of each direction, as the claim lists them
WheelButton(d) ==
    CASE d = "up" -> 4 [] d = "down" -> 5 [] d = "left" -> 6 [] d = "right" -> 7

ClickOf(a) ==
    CASE a = "left_click"   -> <<1, 1>>
      [] a = "right_click"  -> <<1, 3>>
      [] a = "middle_click" -> <<1, 2>>
      [] a = "double_click" -> <<2, 1>>
      [] a = "triple_click" -> <<3, 1>>

\* C19: the one input command line of a click action holds a pointer move if
\* and only if the request has a coordinate; the move goes to the coordinate
\* mapped to screen space and comes before the click; and there is exactly
\* one click sub-command, with the button and repeat count of the action
\* (left 1 once, right 3 once, middle 2 once, double 1 twice, triple 1 three
\* times). No other command line of the call moves the pointer or clicks.
C19_ClickDispatch ==
    \A c \in Slots :
        (call[c].no > 0 /\ Req(c).action \in DOMAIN CLICK_BUTTONS
         /\ Ops(c) # <<>>) =>
        LET r == Req(c)
            cmd == Ops(c)[1].cmd
            moves == Subs(cmd, "mousemove")
            clicks == Subs(cmd, "click")
        IN  /\ OpsWith(c, "click") = {1}
            /\ OpsWith(c, "mousemove") \subseteq {1}
            /\ Has(r, "coordinate") <=> moves # {}
            /\ Cardinality(moves) <= 1
            /\ \A i \in moves :
                    /\ \E m \in Mapped(r) : cmd[i] = <<"mousemove", m[1], m[2]>>
                    /\ \A k \in clicks : i < k
            /\ Cardinality(clicks) = 1
            /\ \A k \in clicks :
                    cmd[k] = <<"click", ClickOf(r.action)[1], ClickOf(r.action)[2]>>

\* a right click at a coordinate ran its move and its click
C19_Witness ==
    \E c \in Slots :
        /\ Returned(c) /\ Res(c).success = TRUE
        /\ Req(c).action = "right_click"
        /\ Has(Req(c), "coordinate")
        /\ Ops(c)[1].done = Len(Ops(c)[1].cmd)
        /\ display.cursor = <<960, 540>>

\* the xdotool sub-commands that inject input
Injections ==
    {"mousemove", "click", "mousedown", "mouseup", "keydown", "keyup", "key",
     "type"}
NoInput == {"screenshot", "cursor_position", "wait"}
NoMove == {"left_mouse_down", "left_mouse_up", "key", "type", "hold_key"}

\* what a step of the call in flight leaves alone on the display
FrameStep ==
    \A c \in Slots :
        /\ (call'[c].no > 0 /\ call'[c].req.action \in NoInput) =>
                display' = display
        /\ (call'[c].no > 0 /\ call'[c].req.action \in NoMove) =>
                display'.cursor = display.cursor

\* C20: frame of the non-pointer actions. A screenshot, cursor_position or
\* wait call issues no input-injection sub-command, and no step of it changes
\* the display's cursor, button state or held keys; a left_mouse_down,
\* left_mouse_up, key, type or hold_key call issues no pointer move, and no
\* step of it changes the display's cursor, with or without a coordinate in
\* the request.
C20_Frame ==
    /\ [](\A c \in Slots :
            /\ (call[c].no > 0 /\ Req(c).action \in NoInput) =>
                    \A t \in Injections : OpsWith(c, t) = {}
            /\ (call[c].no > 0 /\ Req(c).action \in NoMove) =>
                    OpsWith(c, "mousemove") = {})
    /\ [][FrameStep]_vars

\* a left_mouse_down with a coordinate has pressed the button away from the
\* coordinate
C20_Witness ==
    \E c \in Slots :
        /\ Returned(c) /\ Res(c).success = TRUE
        /\ Req(c).action = "left_mouse_down"
        /\ Has(Req(c), "coordinate")
        /\ display.leftDown
        /\ display.cursor # <<960, 540>>

\* number of chunks of a text of length n, and the i-th chunk
NumChunks(n) == (n + 49) \div 50
Slice(text, i) ==
    SubSeq(text, 50 * (i - 1) + 1,
           IF 50 * i < Len(text) THEN 50 * i ELSE Len(text))
RECURSIVE Concat(_)
Concat(seqs) == IF seqs = <<>> THEN <<>> ELSE Head(seqs) \o Concat(Tail(seqs))
\* the text handed to the k-th injection call of call c
Payload(c, k) == Ops(c)[k].cmd[1][2]

\* C13: type chunking. The text-injection calls of a `type` with a non-empty
\* text of length n are the first command lines of the call, issued one
\* after another; the i-th carries characters 50(i-1)+1 .. min(50i, n) of
\* the text, so at most 50 characters, and the payloads issued so far, put
\* together in issue order, are the beginning of the text. When typing has
\* ended without a failed call there are exactly ceil(n/50) of them (3 for
\* n = 137) and together they are the whole text; after a failed call no
\* further chunk is issued.
C13_TypeChunking ==
    \A c \in Slots :
        (call[c].no > 0 /\ Req(c).action = "type" /\ Truthy(Req(c), "text")) =>
        LET text == Req(c).text
            n == Len(text)
            typed == OpsWith(c, "type")
            k == Cardinality(typed)
            payloads == [i \in 1..k |-> Payload(c, i)]
        IN  /\ typed = 1..k
            /\ k <= NumChunks(n)
            /\ \A i \in 1..k :
                    /\ Ops(c)[i].cmd = <<<<"type", Slice(text, i)>>>>
                    /\ Len(Payload(c, i)) \in 1..50
                    /\ i < k => Ops(c)[i].exitCode = 0
            /\ Concat(payloads)
                    = SubSeq(text, 1, IF 50 * k < n THEN 50 * k ELSE n)
            /\ (call[c].pc # "typeText" /\ ~StepFailed(c)) =>
                    /\ k = NumChunks(n)
                    /\ Concat(payloads) = text
                    /\ n = 137 => k = 3
            /\ (call[c].pc # "typeText" /\ k < NumChunks(n)) =>
                    /\ Returned(c) /\ Res(c).success = FALSE
                    /\ Ops(c)[k].exitCode # 0
                    /\ Len(Ops(c)) = k

\* a text of 137 characters has been typed in three calls and the call has
\* returned its screenshot
C13_Witness ==
    \E c \in Slots :
        /\ Returned(c) /\ Res(c).success = TRUE
        /\ Req(c).action = "type"
        /\ Len(Req(c).text) = 137
        /\ Cardinality(OpsWith(c, "type")) = 3
        /\ \A i \in 1..3 : Ops(c)[i].done = 1

\* r is v * a / s rounded to a nearest integer
Nearest(r, v, a, s) ==
    /\ 2 * (r * s - v * a) <= s
    /\ 2 * (v * a - r * s) <= s
Abs(n) == IF n < 0 THEN -n ELSE n
DefaultDims(r) ==
    /\ Dim(r, "displayWidth") = 1280 /\ Dim(r, "displayHeight") = 800
    /\ Dim(r, "screenWidth") = 1920 /\ Dim(r, "screenHeight") = 1080

\* C16: a cursor_position call that has returned success=true reports, for
\* the raw screen position (x, y) its query read ((0, 0) from an empty
\* output), cursorPosition = (round(x / screenW * apiW),
\* round(y / screenH * apiH)) and the same two numbers in output; it equals
\* the raw position only where the mapped position does. With the default
\* 1920x1080 screen and 1280x800 API space, raw (960, 540) gives (640, 400).
C16_CursorInApiSpace ==
    \A c \in Slots :
        (Returned(c) /\ Req(c).action = "cursor_position"
         /\ Res(c).success = TRUE) =>
        LET r == Req(c)
            raw == IF Ops(c)[1].done = 1 THEN display.cursor ELSE <<0, 0>>
            api == Res(c).cursorPosition
        IN  /\ Nearest(api[1], raw[1],
                       Dim(r, "displayWidth"), Dim(r, "screenWidth"))
            /\ Nearest(api[2], raw[2],
                       Dim(r, "displayHeight"), Dim(r, "screenHeight"))
            /\ Res(c).output = <<"X=", api[1], ",Y=", api[2]>>
            /\ (DefaultDims(r) /\ raw = <<960, 540>>) => api = <<640, 400>>
            /\ (DefaultDims(r) /\ raw[1] > 1) => api[1] < raw[1]

\* the query has read (960, 540) and the call has returned (640, 400)
C16_Witness ==
    \E c \in Slots :
        /\ Returned(c) /\ Req(c).action = "cursor_position"
        /\ DefaultDims(Req(c))
        /\ Ops(c)[1].done = 1
        /\ display.cursor = <<960, 540>>
        /\ Has(Res(c), "cursorPosition")
        /\ Res(c).cursorPosition = <<640, 400>>

\* call m has moved the pointer to its coordinate and call q, started after
\* it with the same dimensions, has read the pointer and returned
RoundTrip(m, q) ==
    /\ call[m].no > 0 /\ Req(m).action = "mouse_move"
    /\ Ops(m) # <<>> /\ Ops(m)[1].done = 1
    /\ Returned(q) /\ Req(q).action = "cursor_position"
    /\ call[q].no > call[m].no
    /\ Res(q).success = TRUE /\ Ops(q)[1].done = 1
    /\ \A f \in DimFields : Dim(Req(m), f) = Dim(Req(q), f)
Within1(m, q) ==
    /\ Abs(Res(q).cursorPosition[1] - Req(m).coordinate[1]) <= 1
    /\ Abs(Res(q).cursorPosition[2] - Req(m).coordinate[2]) <= 1

\* C17 as stated: for every API coordinate within bounds, whatever the
\* dimensions, mapping to screen space and back gives a point within 1 of
\* it in each component.
C17_Original ==
    \A m, q \in Slots : RoundTrip(m, q) => Within1(m, q)

\* C17, amended: when the API space is at most twice the screen in each
\* dimension, mapping an API coordinate within bounds to screen space and
\* back gives a point within 1 of it in each component.
C17_RoundTrip ==
    \A m, q \in Slots :
        (RoundTrip(m, q)
         /\ Dim(Req(m), "displayWidth") <= 2 * Dim(Req(m), "screenWidth")
         /\ Dim(Req(m), "displayHeight") <= 2 * Dim(Req(m), "screenHeight"))
        => Within1(m, q)

\* a round trip on the half-size screen that comes back one off
C17_Witness ==
    \E m, q \in Slots :
        /\ RoundTrip(m, q)
        /\ Dim(Req(m), "screenWidth") = 640
        /\ Req(m).coordinate[1] = 1279
        /\ Res(q).cursorPosition[1] = 1280

\* call c has taken its temp path (with its first capture command)
HasPath(c) == call[c].no > 0 /\ CaptureOps(c) # {}

\* C18: unique temp file per capture. Two calls in flight never capture to
\* the same path, the file at a call's path was written by no other call,
\* and the screenshot a call returns is the encoding of the file at its own
\* path, written by its own capture, also when the steps of several calls
\* interleave.
C18_UniqueTempPath ==
    \A c \in Slots :
        HasPath(c) =>
            /\ \A d \in Slots \ {c} : HasPath(d) => call[d].path # call[c].path
            /\ call[c].path \in DOMAIN files =>
                    files[call[c].path].by = call[c].no
            /\ (Returned(c) /\ Res(c).success = TRUE) =>
                    /\ call[c].path \in DOMAIN files
                    /\ Res(c).screenshot = Base64(files[call[c].path])
                    /\ Res(c).screenshot[2].by = call[c].no

\* a call has returned its screenshot although a call that started later
\* captured in between
C18_Witness ==
    \E c, d \in Slots :
        /\ c # d
        /\ Returned(c) /\ Res(c).success = TRUE
        /\ HasPath(d) /\ call[d].no > call[c].no
        /\ call[d].path < call[c].path
        /\ call[d].path \in DOMAIN files

\* C21: every screenshot returned in a success=true result has the API-space
\* dimensions: it is the encoding of an image that the resize to
\* displayWidth x displayHeight has been applied to.
C21_ScreenshotScaled ==
    \A c \in Slots :
        (Returned(c) /\ Res(c).success = TRUE /\ Has(Res(c), "screenshot")) =>
            Res(c).screenshot[2].scaled = TRUE

\* the actions that end with the left button released, and those that touch
\* the left button at all
LeftRelease ==
    {"left_mouse_up", "left_click", "double_click", "triple_click",
     "left_click_drag"}
LeftTouch == LeftRelease \cup {"left_mouse_down"}
\* a step of a call that does not touch the left button leaves it alone
LeftButtonStep ==
    \A c \in Slots :
        (call'[c].no > 0 /\ call'[c].req.action \notin LeftTouch) =>
            display'.leftDown = display.leftDown
\* the left button after a call that has returned success=true
LeftButtonAfter(c) ==
    (Returned(c) /\ Res(c).success = TRUE) =>
        /\ Req(c).action = "left_mouse_down" => display.leftDown
        /\ Req(c).action \in LeftRelease => ~display.leftDown

\* C22: left-button state over sequences of successful calls issued one
\* after another: when a left_mouse_down has returned success=true the
\* button is held, when a left_mouse_up, left_click, double_click,
\* triple_click or left_click_drag has returned success=true it is released,
\* and no step of any other call changes it; so the button is held exactly
\* when the last call that touches it was a left_mouse_down.
C22_LeftButton ==
    /\ [](\A c \in Slots : LeftButtonAfter(c))
    /\ [][LeftButtonStep]_vars

\* C23: drag start under concurrency. Whenever a left_click_drag call whose
\* query read the pointer is about to issue its drag command, the position
\* it queried, from which the drag will start, is the display's cursor
\* position at that moment, whatever other calls have done in between.
C23_DragStartFresh ==
    \A c \in Slots :
        (call[c].pc = "leftClickDrag" /\ Ops(c)[1].done = 1) =>
            call[c].cursor = display.cursor

\* the most steps a call with request r awaits: its input command lines
\* (one per chunk, query and drag, or one), the delay, and the four steps of
\* a capture
MaxSteps(r) ==
    5 + (CASE r.action = "type" /\ Truthy(r, "text") -> NumChunks(Len(r.text))
           [] r.action = "left_click_drag" -> 2
           [] OTHER -> 1)

\* C24: termination. A call never has issued more than a number of commands
\* fixed by its request, and, every awaited step ending (by completion or by
\* the timeout), every call that has started eventually returns a result.
C24_Termination ==
    /\ [](\A c \in Slots : Len(Ops(c)) <= MaxSteps(Req(c)))
    /\ \A c \in Slots : (call[c].pc \notin {"idle", "done"}) ~> Returned(c)

\* a drag has returned after its query, its drag, the delay and a capture
\* that needed the fallback
C24_Witness ==
    \E c \in Slots :
        /\ Returned(c) /\ Res(c).success = TRUE
        /\ Req(c).action = "left_click_drag"
        /\ Len(Ops(c)) = MaxSteps(Req(c))

TypeOK ==
    /\ \A c \in Slots : call[c].pc \in
        {"idle", "done", "thrown", "mouseMove", "mouseClick",
         "getCursorPosition", "leftClickDrag", "mouseButton", "scroll",
         "keyPress", "typeText", "holdKey", "wait", "captureScreenshot",
         "gnomeScreenshot", "convert", "readFile"}
    /\ callNo \in 0..MaxCalls

====
